---- MODULE Spec2Model ----
(***************************************************************************)
(* E-learning API (src/main.py, src/database.py, src/schemas.py):          *)
(* registration, login with default-admin bootstrap, bearer-token access   *)
(* gate and course CRUD over a document store.                             *)
(*                                                                         *)
(* Every request is handled by a coroutine; each `await` on the store is a *)
(* suspension point, so each store call is one atomic step and the         *)
(* synchronous code before and after it belongs to the same step.          *)
(* Time is counted in whole seconds (the token library truncates both exp  *)
(* and the validation clock to whole seconds).  A bcrypt hash is modelled  *)
(* by the password it was made from (the salt is left out); the            *)
(* created_at / updated_at stamps of create_document are left out.         *)
(***************************************************************************)
EXTENDS Integers, Sequences, FiniteSets, TLC

\* ------------------------------------------------------------------ bounds
MaxRequests == 3
MaxSkew == 1
MaxCourses == 1

\* --------------------------------------------------------- program constants
SECRET_KEY == "dev-secret-key-change-in-prod"
ACCESS_TOKEN_EXPIRE_MINUTES == 60 * 24
TTL == ACCESS_TOKEN_EXPIRE_MINUTES * 60

DefaultAdminEmail == "antonio.admin@demo.local"
DefaultAdminName == "AntonioAdmin"
DefaultAdminPassword == "Antonio89"

\* ------------------------------------------------------------ input domains
\* two workers: every race of the program is between two requests
Procs == {1, 2}
OtherKey == "some-other-key"
Emails == {DefaultAdminEmail, "user@test.io"}
\* full_name is any string, also another account's email
Names == {DefaultAdminEmail}
\* role omitted or null, empty, or the privileged value
RolesIn == {"<None>", "", "admin"}
RegisterBodies ==
    [email : Emails, full_name : Names, password : {"pw123"}, role : RolesIn]
Identifiers == Emails
Passwords == {DefaultAdminPassword, "pw123"}
LoginForms == [username : Identifiers, password : Passwords]
Titles == {"Intro"}
CourseIds == 1..MaxCourses
\* the instants the clock is observed at: the start, and the seconds from
\* the expiry of a token issued at the start
ClockValues == {0} \cup (TTL..(TTL + MaxSkew))
\* an ObjectId no user record has (a request inserts at most one record)
GhostId == MaxRequests + 1
FarFuture == 3 * TTL

VARIABLES
    users,       \* db["user"]: the records in insertion order; _id = position
    emailIndex,  \* whether the unique index on user.email exists
    course,      \* db["course"]: live course id -> document
    courseSeq,   \* number of course documents ever inserted (next _id - 1)
    now,         \* datetime.utcnow(), whole seconds
    issued,      \* the tokens login has returned
    proc,        \* per worker: the request it is handling and where it is
    nreq,        \* requests accepted so far
    resp         \* the HTTP response the last step sent, if any

vars == <<users, emailIndex, course, courseSeq, now, issued, proc, nreq, resp>>

\* ----------------------------------------------------------------- helpers
Idle == [pc |-> "idle"]
NoResp == [status |-> 0]

\* dict.get(key, default)
Get(doc, key, default) == IF key \in DOMAIN doc THEN doc[key] ELSE default

\* passlib CryptContext.hash / verify.  verify raises UnknownHashError on a
\* string that is no hash (such as "").
get_password_hash(password) == <<"bcrypt", password>>
VerifyRaises(hashed) == hashed = <<>>
verify_password(plain, hashed) == hashed = <<"bcrypt", plain>>

\* the ids of the user records a find_one filter {field: value} matches
Matches(field, value) ==
    {i \in DOMAIN users : field \in DOMAIN users[i] /\ users[i][field] = value}

\* schemas.User(...).model_dump()
UserDoc(email, full_name, hashed, role) ==
    [email |-> email, full_name |-> full_name, hashed_password |-> hashed,
     role |-> role, is_active |-> TRUE]

DefaultAdminDoc ==
    UserDoc(DefaultAdminEmail, DefaultAdminName,
            get_password_hash(DefaultAdminPassword), "admin")

\* insert_one on db["user"]: the unique index rejects a second record with
\* the same email (DuplicateKeyError)
InsertRejected(doc) == emailIndex /\ Matches("email", doc.email) # {}

\* the keys of a document as get_documents / create_document return it
\* (_id popped, id added)
Returned(doc) == DOMAIN doc \cup {"id"}

UserPublicFields == {"id", "email", "full_name", "role", "is_active"}

\* jose.jwt.encode / decode with HS256: the signature binds key and payload
Sign(key, payload) == <<key, payload>>
JwtEncode(payload, key) == [payload |-> payload, sig |-> Sign(key, payload)]
Expired(payload, t) == "exp" \in DOMAIN payload /\ payload.exp < t
\* mutant: decode with verify_exp switched off
JwtDecodesNoExpiry(tok, key, t) == tok.sig = Sign(key, tok.payload)
JwtDecodes(tok, key, t) ==
    /\ tok.sig = Sign(key, tok.payload)
    /\ ~Expired(tok.payload, t)

\* create_access_token(data) at clock t
create_access_token(data, t) ==
    JwtEncode([k \in DOMAIN data \cup {"exp"} |->
                  IF k = "exp" THEN t + TTL ELSE data[k]], SECRET_KEY)

\* schemas.Course(...).model_dump()
CourseDoc(title) ==
    [title |-> title, description |-> "d", level |-> "beginner", price |-> 0,
     published |-> FALSE, thumbnail_url |-> "<None>", lessons |-> <<>>]

\* the worker sends a response for request req and is free again; fields
\* are the keys of the objects in the response body
Respond(p, req, status, detail, fields) ==
    /\ resp' = [req |-> req, status |-> status, detail |-> detail,
                fields |-> fields]
    /\ proc' = [proc EXCEPT ![p] = Idle]

\* login's response: {"access_token": tok, "token_type": "bearer"}
RespondToken(p, req, tok) ==
    /\ resp' = [req |-> req, status |-> 200, detail |-> "Token",
                fields |-> {"access_token", "token_type"}, token |-> tok]
    /\ proc' = [proc EXCEPT ![p] = Idle]

Goto(p, rec) ==
    /\ proc' = [proc EXCEPT ![p] = rec]
    /\ resp' = NoResp

At(p, pc) == proc[p].pc = pc

\* ------------------------------------------------------------------- Init
\* a user record written before hashed_password was stored
LegacyDoc ==
    [email |-> "user@test.io", full_name |-> "Una", role |-> "student",
     is_active |-> TRUE]

InitStore(store) ==
    /\ users = store
    /\ emailIndex = FALSE
    /\ course = <<>>
    /\ courseSeq = 0
    /\ now = 0
    /\ issued = {}
    /\ proc = [p \in Procs |-> Idle]
    /\ nreq = 0
    /\ resp = NoResp

\* a fresh deployment: empty collections, no index
Init == InitStore(<<>>)

\* a deployment over a collection that holds a record without a hash
InitLegacy == InitStore(<<LegacyDoc>>)

\* ------------------------------------------------------------ environment
\* database.ensure_indexes: create_index("email", unique=True) fails when
\* the collection already holds two records with one email
ensure_indexes ==
    /\ ~emailIndex
    /\ \A i, j \in DOMAIN users : users[i].email = users[j].email => i = j
    /\ emailIndex' = TRUE
    /\ resp' = NoResp
    /\ UNCHANGED <<users, course, courseSeq, now, issued, proc, nreq>>

\* time passes
Tick ==
    /\ \E t \in ClockValues : t > now /\ now' = t
    /\ resp' = NoResp
    /\ UNCHANGED <<users, emailIndex, course, courseSeq, issued, proc, nreq>>

\* ---------------------------------------------------- POST /auth/register
StartRegister(p) ==
    /\ At(p, "idle") /\ nreq < MaxRequests
    /\ \E body \in RegisterBodies :
          Goto(p, [pc |-> "reg_find", kind |-> "register", body |-> body])
    /\ nreq' = nreq + 1
    /\ UNCHANGED <<users, emailIndex, course, courseSeq, now, issued>>

\* existing = await db["user"].find_one({"email": user_in.email})
RegisterFind(p) ==
    /\ At(p, "reg_find")
    /\ IF Matches("email", proc[p].body.email) # {}
          THEN Respond(p, proc[p], 400, "Email already registered", {})
          ELSE Goto(p, [proc[p] EXCEPT !.pc = "reg_insert"])
    /\ UNCHANGED <<users, emailIndex, course, courseSeq, now, issued, nreq>>

\* the document register builds: role=user_in.role or "student"
RegisterDoc(body) ==
    UserDoc(body.email, body.full_name, get_password_hash(body.password),
            IF body.role \in {"<None>", ""} THEN "student" ELSE body.role)

\* mutant: the insert written as an upsert on email
RegisterInsertUpsert(p) ==
    /\ At(p, "reg_insert")
    /\ LET doc == RegisterDoc(proc[p].body)
           same == Matches("email", doc.email) IN
       /\ users' = IF same = {} THEN Append(users, doc)
                   ELSE [i \in DOMAIN users |-> IF i \in same THEN doc ELSE users[i]]
       /\ Goto(p, [pc |-> "reg_read", kind |-> "register", body |-> proc[p].body,
                   id |-> IF same = {} THEN Len(users) + 1
                          ELSE CHOOSE i \in same : TRUE])
    /\ UNCHANGED <<emailIndex, course, courseSeq, now, issued, nreq>>

\* create_document: await db["user"].insert_one(...); a DuplicateKeyError
\* is not handled and ends the request with a server error
RegisterInsert(p) ==
    /\ At(p, "reg_insert")
    /\ IF InsertRejected(RegisterDoc(proc[p].body))
          THEN /\ Respond(p, proc[p], 500, "DuplicateKeyError", {})
               /\ users' = users
          ELSE /\ users' = Append(users, RegisterDoc(proc[p].body))
               /\ Goto(p, [pc |-> "reg_read", kind |-> "register",
                           body |-> proc[p].body, id |-> Len(users) + 1])
    /\ UNCHANGED <<emailIndex, course, courseSeq, now, issued, nreq>>

\* create_document: await find_one({"_id": inserted_id}); return UserPublic
RegisterRead(p) ==
    /\ At(p, "reg_read")
    /\ Respond(p, proc[p], 200, "UserPublic", UserPublicFields)
    /\ UNCHANGED <<users, emailIndex, course, courseSeq, now, issued, nreq>>

\* ------------------------------------------------------- POST /auth/token
StartLogin(p) ==
    /\ At(p, "idle") /\ nreq < MaxRequests
    /\ \E form \in LoginForms :
          Goto(p, [pc |-> "boot_find", kind |-> "login", form |-> form])
    /\ nreq' = nreq + 1
    /\ UNCHANGED <<users, emailIndex, course, courseSeq, now, issued>>

\* ensure_default_admin: existed = await find_one({"role": "admin"})
BootFind(p) ==
    /\ At(p, "boot_find")
    /\ IF Matches("role", "admin") # {}
          THEN Goto(p, [proc[p] EXCEPT !.pc = "auth_email"])
          ELSE Goto(p, [proc[p] EXCEPT !.pc = "boot_insert"])
    /\ UNCHANGED <<users, emailIndex, course, courseSeq, now, issued, nreq>>

\* ensure_default_admin: create_document insert_one; a DuplicateKeyError is
\* caught by `except Exception: return`
BootInsert(p) ==
    /\ At(p, "boot_insert")
    /\ IF InsertRejected(DefaultAdminDoc)
          THEN /\ Goto(p, [proc[p] EXCEPT !.pc = "auth_email"])
               /\ users' = users
          ELSE /\ users' = Append(users, DefaultAdminDoc)
               /\ Goto(p, [proc[p] EXCEPT !.pc = "boot_read"])
    /\ UNCHANGED <<emailIndex, course, courseSeq, now, issued, nreq>>

\* ensure_default_admin: create_document's read-back, then return
BootRead(p) ==
    /\ At(p, "boot_read")
    /\ Goto(p, [proc[p] EXCEPT !.pc = "auth_email"])
    /\ UNCHANGED <<users, emailIndex, course, courseSeq, now, issued, nreq>>

\* mutant: the role is not copied into the token
TokenDataNoRole(id, user) == [sub |-> id, role |-> "student"]
\* login: {"sub": user["id"], "role": user.get("role", "student")}
TokenData(id, user) == [sub |-> id, role |-> Get(user, "role", "student")]

\* authenticate_user on the record get_user_by_identifier returned (any of
\* the records the filter matches), then the rest of login: 400 on None,
\* else a token for the record
LoginFinish(p, found) ==
    IF found = {}
    THEN /\ Respond(p, proc[p], 400, "Incorrect credentials", {})
         /\ issued' = issued
    ELSE \E i \in found :
         LET hashed == Get(users[i], "hashed_password", <<>>) IN
         IF VerifyRaises(hashed)
         THEN /\ Respond(p, proc[p], 500, "UnknownHashError", {})
              /\ issued' = issued
         ELSE IF ~verify_password(proc[p].form.password, hashed)
         THEN /\ Respond(p, proc[p], 400, "Incorrect credentials", {})
              /\ issued' = issued
         ELSE LET tok == create_access_token(TokenData(i, users[i]), now) IN
              /\ issued' = issued \cup {tok}
              /\ RespondToken(p, proc[p], tok)

\* mutant: an email match whose password fails falls back to full_name
AuthEmailFallsBack(p) ==
    /\ At(p, "auth_email")
    /\ LET hit == {i \in Matches("email", proc[p].form.username) :
                     verify_password(proc[p].form.password,
                                     Get(users[i], "hashed_password", <<>>))} IN
       IF hit # {}
          THEN LoginFinish(p, hit)
          ELSE /\ Goto(p, [proc[p] EXCEPT !.pc = "auth_name"])
               /\ issued' = issued
    /\ UNCHANGED <<users, emailIndex, course, courseSeq, now, nreq>>

\* get_user_by_identifier: await find_one({"email": identifier})
AuthEmail(p) ==
    /\ At(p, "auth_email")
    /\ IF Matches("email", proc[p].form.username) # {}
          THEN LoginFinish(p, Matches("email", proc[p].form.username))
          ELSE /\ Goto(p, [proc[p] EXCEPT !.pc = "auth_name"])
               /\ issued' = issued
    /\ UNCHANGED <<users, emailIndex, course, courseSeq, now, nreq>>

\* get_user_by_identifier: await find_one({"full_name": identifier})
AuthName(p) ==
    /\ At(p, "auth_name")
    /\ LoginFinish(p, Matches("full_name", proc[p].form.username))
    /\ UNCHANGED <<users, emailIndex, course, courseSeq, now, nreq>>

\* ------------------------------------------------------ protected routes
AdminRoutes == {"admin_users", "create_course", "update_course", "delete_course"}

\* what a client can send: a route, its arguments (read when the handler
\* runs) ...
Routes == {"me"} \cup AdminRoutes
RouteCalls(route) ==
    CASE route = "create_course" -> [route : {route}, title : Titles]
      [] route = "update_course" ->
            [route : {route}, id : CourseIds, title : Titles \cup {"<None>"}]
      [] route = "delete_course" -> [route : {route}, id : CourseIds]
      [] OTHER -> {[route |-> route]}

\* a token login issued more than a day before the start, for the first
\* record of the collection
StaleToken == create_access_token([sub |-> 1, role |-> "admin"], 0 - TTL - 1)

\* ... and an Authorization header: none, no JWT at all, a token login
\* issued, such a token with its role edited or signed with another key, a
\* stale token, or a token signed with the server's key elsewhere (without
\* sub, for an id that is no record, or naming the first record an admin)
Bearers ==
    {[kind |-> "none"], [kind |-> "malformed"]}
    \cup [kind : {"jwt"}, tok : issued \cup {StaleToken}]
    \cup {[kind |-> "jwt", tok |-> [t EXCEPT !.payload.role = "admin"]] : t \in issued}
    \cup {[kind |-> "jwt", tok |-> JwtEncode(t.payload, OtherKey)] : t \in issued}
    \cup {[kind |-> "jwt",
           tok |-> JwtEncode([role |-> "admin", exp |-> FarFuture], SECRET_KEY)],
          [kind |-> "jwt",
           tok |-> JwtEncode([sub |-> GhostId, role |-> "admin",
                              exp |-> FarFuture], SECRET_KEY)],
          [kind |-> "jwt",
           tok |-> JwtEncode([sub |-> 1, role |-> "admin",
                              exp |-> FarFuture], SECRET_KEY)]}

Unauthorized(p, req) ==
    Respond(p, req, 401, "Could not validate credentials", {})

\* oauth2_scheme, then get_current_user up to its first await: jwt.decode
\* and the sub check
StartProtected(p) ==
    /\ At(p, "idle") /\ nreq < MaxRequests
    /\ nreq' = nreq + 1
    /\ \E route \in Routes, bearer \in Bearers :
          LET req == [pc |-> "validate", kind |-> "protected", route |-> route,
                      bearer |-> bearer, at |-> now] IN
          /\ route = "create_course" => courseSeq < MaxCourses
          /\ IF bearer.kind # "jwt"
                THEN Unauthorized(p, req)
             ELSE IF ~JwtDecodes(bearer.tok, SECRET_KEY, now)
                       \/ "sub" \notin DOMAIN bearer.tok.payload
                THEN Unauthorized(p, req)
             ELSE Goto(p, [req EXCEPT !.pc = "gate_load"])
    /\ UNCHANGED <<users, emailIndex, course, courseSeq, now, issued>>

\* mutant: the role check left out
IsAdminAlways(user) == TRUE
\* get_current_admin
IsAdmin(user) == Get(user, "role", "<None>") = "admin"

\* mutant: the gate takes the role from the token payload
CurrentUserTokenRole(record, payload) ==
    [k \in DOMAIN record \cup {"role"} |->
        IF k = "role" THEN Get(payload, "role", "<None>") ELSE record[k]]
\* get_current_user's return value: the record read from the store; the
\* payload is dropped once sub is taken from it
CurrentUser(record, payload) == record

\* mutant: the role check comes before the `if not user` check
GateVerdictRoleFirst(found, adminRoute, admin) ==
    IF adminRoute /\ ~admin THEN 403 ELSE IF ~found THEN 401 ELSE 200
\* the dependency chain of a protected route once the record is read:
\* get_current_user's `if not user: raise 401`, and only then, on the admin
\* routes, get_current_admin's role check
GateVerdict(found, adminRoute, admin) ==
    IF ~found THEN 401 ELSE IF adminRoute /\ ~admin THEN 403 ELSE 200

\* get_current_user: user = await find_one({"_id": ObjectId(user_id)}),
\* then get_current_admin on the admin routes, then the handler up to its
\* first await
GateLoad(p) ==
    /\ At(p, "gate_load")
    /\ LET req == proc[p]
           sub == req.bearer.tok.payload.sub
           verdict == GateVerdict(sub \in DOMAIN users, req.route \in AdminRoutes,
                                  /\ sub \in DOMAIN users
                                  /\ IsAdmin(CurrentUser(users[sub],
                                                         req.bearer.tok.payload))) IN
       IF verdict = 401
          THEN Unauthorized(p, req)
       ELSE IF verdict = 403
          THEN Respond(p, req, 403, "Admin privileges required", {})
       ELSE IF req.route = "me"
          THEN Respond(p, req, 200, "UserPublic", UserPublicFields)
       ELSE \E call \in RouteCalls(req.route) :
            IF call.route = "update_course" /\ call.title = "<None>"
               THEN Respond(p, req, 200, "not updated", {"updated"})
               ELSE Goto(p, [pc |-> call.route, kind |-> "protected",
                             route |-> req.route, bearer |-> req.bearer,
                             at |-> req.at, call |-> call])
    /\ UNCHANGED <<users, emailIndex, course, courseSeq, now, issued, nreq>>

\* admin_list_users: docs = await get_documents("user", {}, 200)
AdminListUsers(p) ==
    /\ At(p, "admin_users")
    /\ Respond(p, proc[p], 200, "users",
               UNION {Returned(users[i]) : i \in DOMAIN users})
    /\ UNCHANGED <<users, emailIndex, course, courseSeq, now, issued, nreq>>

\* create_course: create_document insert_one
CreateCourse(p) ==
    /\ At(p, "create_course")
    /\ courseSeq' = courseSeq + 1
    /\ course' = [c \in DOMAIN course \cup {courseSeq + 1} |->
                    IF c = courseSeq + 1 THEN CourseDoc(proc[p].call.title)
                                         ELSE course[c]]
    /\ Goto(p, [proc[p] EXCEPT !.pc = "course_read",
                               !.call = [route |-> "create_course",
                                         title |-> @.title,
                                         id |-> courseSeq + 1]])
    /\ UNCHANGED <<users, emailIndex, now, issued, nreq>>

\* create_document: the read-back; `inserted or {}`
CourseRead(p) ==
    /\ At(p, "course_read")
    /\ Respond(p, proc[p], 200, "course",
               IF proc[p].call.id \in DOMAIN course
                  THEN Returned(course[proc[p].call.id]) ELSE {})
    /\ UNCHANGED <<users, emailIndex, course, courseSeq, now, issued, nreq>>

\* update_course: update_one({"_id": ...}, {"$set": updates})
UpdateCourse(p) ==
    /\ At(p, "update_course")
    /\ IF proc[p].call.id \notin DOMAIN course
          THEN /\ Respond(p, proc[p], 404, "Course not found", {})
               /\ course' = course
          ELSE /\ course' = [course EXCEPT ![proc[p].call.id] =
                     [k \in DOMAIN @ \cup {"updated_at"} |->
                        IF k = "title" THEN proc[p].call.title
                        ELSE IF k = "updated_at" THEN "stamp" ELSE @[k]]]
               /\ Goto(p, [proc[p] EXCEPT !.pc = "course_find"])
    /\ UNCHANGED <<users, emailIndex, courseSeq, now, issued, nreq>>

\* update_course: updated = await find_one(...); updated.pop("_id") raises
\* on None
CourseFind(p) ==
    /\ At(p, "course_find")
    /\ IF proc[p].call.id \in DOMAIN course
          THEN Respond(p, proc[p], 200, "course", Returned(course[proc[p].call.id]))
          ELSE Respond(p, proc[p], 500, "AttributeError", {})
    /\ UNCHANGED <<users, emailIndex, course, courseSeq, now, issued, nreq>>

\* delete_course: delete_one({"_id": ...})
DeleteCourse(p) ==
    /\ At(p, "delete_course")
    /\ IF proc[p].call.id \notin DOMAIN course
          THEN /\ Respond(p, proc[p], 404, "Course not found", {})
               /\ course' = course
          ELSE /\ course' = [c \in DOMAIN course \ {proc[p].call.id} |-> course[c]]
               /\ Respond(p, proc[p], 200, "deleted", {"deleted"})
    /\ UNCHANGED <<users, emailIndex, courseSeq, now, issued, nreq>>

\* GET /courses (no token): docs = await get_documents("course", {}, limit)
ListCourses(p) ==
    /\ At(p, "idle") /\ nreq < MaxRequests
    /\ nreq' = nreq + 1
    /\ Respond(p, [pc |-> "list_courses", kind |-> "list_courses"], 200, "courses",
               UNION {Returned(course[c]) : c \in DOMAIN course})
    /\ UNCHANGED <<users, emailIndex, course, courseSeq, now, issued>>

\* ----------------------------------------------------------- store faults
BootPcs == {"boot_find", "boot_insert", "boot_read"}
StorePcs ==
    {"reg_find", "reg_insert", "reg_read", "auth_email", "auth_name",
     "gate_load", "admin_users", "create_course", "course_read",
     "update_course", "course_find", "delete_course"}

\* mutant: ensure_default_admin without its try/except
BootFaultUnhandled(p) ==
    /\ proc[p].pc \in BootPcs
    /\ Respond(p, [pc |-> proc[p].pc, kind |-> proc[p].kind], 500,
               "store unavailable", {})
    /\ UNCHANGED <<users, emailIndex, course, courseSeq, now, issued, nreq>>

\* the store call a worker awaits raises (store unreachable).  Inside
\* ensure_default_admin the blanket `except Exception: return` swallows it
\* and login goes on; everywhere else it ends the request with a server
\* error.
BootFault(p) ==
    /\ proc[p].pc \in BootPcs
    /\ Goto(p, [proc[p] EXCEPT !.pc = "auth_email"])
    /\ UNCHANGED <<users, emailIndex, course, courseSeq, now, issued, nreq>>

StoreFault(p) ==
    /\ proc[p].pc \in StorePcs
    /\ Respond(p, [pc |-> proc[p].pc, kind |-> proc[p].kind], 500,
               "store unavailable", {})
    /\ UNCHANGED <<users, emailIndex, course, courseSeq, now, issued, nreq>>

\* ------------------------------------------------------------------- Next
RegisterSteps(p) ==
    \/ StartRegister(p) \/ RegisterFind(p) \/ RegisterInsert(p)
    \/ RegisterRead(p)

LoginSteps(p) ==
    \/ StartLogin(p) \/ BootFind(p) \/ BootInsert(p) \/ BootRead(p)
    \/ AuthEmail(p) \/ AuthName(p)

ProtectedSteps(p) ==
    \/ StartProtected(p) \/ GateLoad(p) \/ AdminListUsers(p)
    \/ CreateCourse(p) \/ CourseRead(p) \/ UpdateCourse(p) \/ CourseFind(p)
    \/ DeleteCourse(p)

\* the store always answers; all requests fall within one second
NextReliable ==
    \/ ensure_indexes
    \/ \E p \in Procs :
          RegisterSteps(p) \/ LoginSteps(p) \/ ProtectedSteps(p) \/ ListCourses(p)

\* store calls may fail
Next == NextReliable \/ \E p \in Procs : BootFault(p) \/ StoreFault(p)

\* time passes between the steps of logins and protected requests
NextClock == Tick \/ \E p \in Procs : LoginSteps(p) \/ ProtectedSteps(p)

Spec == Init /\ [][Next]_vars

SpecReliable == Init /\ [][NextReliable]_vars

SpecClock == Init /\ [][NextClock]_vars

SpecLegacy == InitLegacy /\ [][Next]_vars

\* ------------------------------------------------------------------ claims
Admins == Matches("role", "admin")
Responded(kind) == resp.status # 0 /\ resp.req.kind = kind
BootReturned(p) == proc[p].pc \in {"auth_email", "auth_name"}

\* C1 (as claimed): on a store that held no admin and that only
\* ensure_default_admin has written to, once an invocation has returned and
\* none is in progress there is exactly one record with role admin.
C1_BootstrapIdempotent ==
    (/\ \E p \in Procs : BootReturned(p)
     /\ \A p \in Procs : proc[p].pc \notin BootPcs
     /\ \A i \in DOMAIN users : users[i] = DefaultAdminDoc)
    => Cardinality(Admins) = 1

\* C2 (as claimed): the user collection never holds two records with one
\* email.
C2_EmailUnique ==
    \A i, j \in DOMAIN users : users[i].email = users[j].email => i = j

\* C3 (as claimed): when a login request has been answered, the user
\* collection holds a record with role admin.
C3_AdminExistsAfterLogin == Responded("login") => Admins # {}

\* what the claims call a valid token, read off the request: a JWT signed
\* with the server key, not past its exp at validation time, carrying a sub
GoodToken(r) ==
    /\ r.bearer.kind = "jwt"
    /\ r.bearer.tok.sig = <<SECRET_KEY, r.bearer.tok.payload>>
    /\ "sub" \in DOMAIN r.bearer.tok.payload
    /\ r.bearer.tok.payload.exp >= r.at
Resolves(r) == GoodToken(r) /\ r.bearer.tok.payload.sub \in DOMAIN users
ResolvesToAdmin(r) ==
    Resolves(r) /\ users[r.bearer.tok.payload.sub].role = "admin"
HandlerPcs ==
    {"admin_users", "create_course", "course_read", "update_course",
     "course_find", "delete_course"}
\* a response to a protected request that no store fault cut short
Answered == Responded("protected") /\ "bearer" \in DOMAIN resp.req

C5_NoHashInResponses == resp.status # 0 => "hashed_password" \notin resp.fields

\* C6 (as claimed): a token issued at t0 carries exp = t0 + 24 h; validation
\* at time `at` accepts a signed token exactly when at < exp, so a token
\* presented at at = exp is rejected.
C6_TokenExpiry ==
    /\ (Responded("login") /\ resp.status = 200)
          => resp.token.payload.exp = now + 24 * 60 * 60
    /\ \A p \in Procs : proc[p].pc = "gate_load" =>
          /\ proc[p].bearer.tok.sig = <<SECRET_KEY, proc[p].bearer.tok.payload>>
          /\ proc[p].at < proc[p].bearer.tok.payload.exp
    /\ (Answered /\ resp.req.pc = "validate" /\ resp.req.bearer.kind = "jwt"
           /\ "sub" \in DOMAIN resp.req.bearer.tok.payload)
          => ~(/\ resp.req.bearer.tok.sig = <<SECRET_KEY, resp.req.bearer.tok.payload>>
               /\ resp.req.at < resp.req.bearer.tok.payload.exp)

\* C7 (as claimed): a registration whose email a record already held when it
\* came to insert is answered 400 "Email already registered", and the
\* collection keeps exactly one record for that email.
C7_RegistrationConflict ==
    Responded("register") /\ "body" \in DOMAIN resp.req =>
       LET mine == IF "id" \in DOMAIN resp.req THEN resp.req.id ELSE Len(users) + 1
           held == {i \in Matches("email", resp.req.body.email) : i < mine}
       IN  held # {} =>
              /\ resp.status = 400 /\ resp.detail = "Email already registered"
              /\ Cardinality(Matches("email", resp.req.body.email)) = 1

\* C8 (as claimed): a login for which no record matches the identifier, or
\* every matching record has no hash or a hash the password fails, is
\* answered 400 "Incorrect credentials".
C8_LoginNonEnumeration ==
    Responded("login") /\ "form" \in DOMAIN resp.req =>
       LET cands == Matches("email", resp.req.form.username)
                       \cup Matches("full_name", resp.req.form.username)
       IN  (\A i \in cands :
               \/ "hashed_password" \notin DOMAIN users[i]
               \/ users[i].hashed_password # <<"bcrypt", resp.req.form.password>>)
           => resp.status = 400 /\ resp.detail = "Incorrect credentials"

\* C9: a login is never answered from within ensure_default_admin: whatever
\* fails there, the request goes on to authenticate_user, and the answer is
\* the token of a record the credentials match, 400 Incorrect credentials,
\* or the failure of authenticate_user itself.
C9_BootstrapNeverBreaksLogin ==
    Responded("login") =>
       /\ resp.req.pc \in {"auth_email", "auth_name"}
       /\ resp.status \in {200, 400, 500}
       /\ resp.status = 200 =>
             \E i \in DOMAIN users :
                /\ resp.req.form.username \in {users[i].email, users[i].full_name}
                /\ users[i].hashed_password = <<"bcrypt", resp.req.form.password>>
                /\ resp.token.payload.sub = i
       /\ resp.status = 400 => resp.detail = "Incorrect credentials"
       /\ resp.status = 500 => resp.detail \in {"store unavailable", "UnknownHashError"}

\* C9 witness: a login was answered by authentication although its
\* ensure_default_admin failed (the store holds no record at all).
C9_Witness == Responded("login") /\ resp.status = 400 /\ users = <<>>

CourseWriters == {"create_course", "update_course", "delete_course"}

\* C10: the course collection changes only in a step of a request to a
\* course-writing route that carries a valid unexpired token of an admin
\* record, and a step that answers 401 or 403 leaves it unchanged.
C10_AdminOnlyCourseMutation ==
    [][/\ course' # course =>
             \E p \in Procs :
                /\ proc'[p] # proc[p] /\ proc[p].pc \in CourseWriters
                /\ proc[p].route \in CourseWriters
                /\ ResolvesToAdmin(proc[p])
       /\ resp'.status \in {401, 403} => course' = course]_vars

\* C10 witness: an admin's request has changed the course collection.
C10_Witness ==
    /\ DOMAIN course # {}
    /\ \E p \in Procs : proc[p].pc = "course_read" /\ ResolvesToAdmin(proc[p])

\* the role a request's token carries
TokenRole(r) == Get(r.bearer.tok.payload, "role", "<None>")

\* C11 (as claimed): the admin check of a protected request is decided by
\* the role in the token payload, not by the stored role: a valid token
\* that resolves is refused on an admin route exactly when its payload role
\* is not admin.
C11_RoleFromToken ==
    (Answered /\ Resolves(resp.req) /\ resp.req.route \in AdminRoutes)
       => (resp.status = 403 <=> TokenRole(resp.req) # "admin")

\* C11 (amended): token validation reads no role from the store (a request
\* passes it exactly when its token is signed, unexpired and has a sub), and
\* the admin check is decided by the stored role of the record the sub
\* resolves to, whatever role the token carries.
C11_RoleFromStore ==
    /\ \A p \in Procs : proc[p].pc = "gate_load" => GoodToken(proc[p])
    /\ (Answered /\ resp.req.pc = "validate") => ~GoodToken(resp.req)
    /\ (Answered /\ Resolves(resp.req) /\ resp.req.route \in AdminRoutes)
          => (resp.status = 403 <=> ~ResolvesToAdmin(resp.req))

\* C11 witness: a valid token that says admin, for a record stored as
\* student, was refused on an admin route.
C11_Witness ==
    /\ Answered /\ Resolves(resp.req) /\ resp.req.route \in AdminRoutes
    /\ TokenRole(resp.req) = "admin" /\ ~ResolvesToAdmin(resp.req)
    /\ resp.status = 403

\* C12: within a protected request validation comes before the user load
\* and the load before the role check: a request is at the store read only
\* with a validated token and in a handler only once its sub resolved; a
\* request whose token fails validation is answered 401 by the validation
\* step, before any store read; one whose sub resolves to no record is
\* answered 401 by the load step and never 403.
C12_GateOrder ==
    /\ \A p \in Procs :
          /\ proc[p].pc = "gate_load" => GoodToken(proc[p])
          /\ proc[p].pc \in HandlerPcs => Resolves(proc[p])
    /\ Answered =>
          /\ ~GoodToken(resp.req)
                => resp.status = 401 /\ resp.req.pc = "validate"
          /\ (GoodToken(resp.req) /\ ~Resolves(resp.req))
                => resp.status = 401 /\ resp.req.pc = "gate_load"
          /\ resp.status = 403
                => resp.req.pc = "gate_load" /\ Resolves(resp.req)

\* C12 witness: a validated token whose sub is no record was answered 401
\* by the load step of an admin route.
C12_Witness ==
    /\ Answered /\ GoodToken(resp.req) /\ ~Resolves(resp.req)
    /\ resp.req.route \in AdminRoutes
    /\ resp.status = 401 /\ resp.req.pc = "gate_load"

\* the records among S whose stored hash the password verifies against
Verifying(S, password) ==
    {i \in S : verify_password(password, Get(users[i], "hashed_password", <<>>))}
\* the login answer just sent is what authenticate_user makes of a record
\* of S: a token for a record of S the password verifies against, or 400
\* for one it fails against (or the error verify raises on a record of S
\* that stores no hash)
DecidedAmong(S, form) ==
    \/ /\ resp'.status = 200
       /\ resp'.token.payload.sub \in Verifying(S, form.password)
    \/ /\ resp'.status = 400
       /\ S \ Verifying(S, form.password) # {}
    \/ /\ resp'.status = 500 /\ resp'.detail = "UnknownHashError"
       /\ \E i \in S : VerifyRaises(Get(users[i], "hashed_password", <<>>))

\* C13: the email lookup comes first and is final when it matches: a login
\* goes on to the full_name lookup only when no record has the identifier
\* as email; when one has, the answer is decided on an email-matched record
\* alone (token for it, or 400 when its password fails, without fallback),
\* and a login answered after the full_name lookup is decided on a
\* full_name-matched record or is 400.  Steps in which the store call fails
\* are left aside.
C13_EmailFirst ==
    [][\A p \in Procs :
          (/\ proc[p].pc \in {"auth_email", "auth_name"}
           /\ proc'[p] # proc[p]
           /\ ~(resp'.status = 500 /\ resp'.detail = "store unavailable"))
          => LET form == proc[p].form
                 byEmail == Matches("email", form.username)
                 byName == Matches("full_name", form.username)
             IN  IF proc[p].pc = "auth_name"
                    THEN /\ proc'[p] = Idle /\ resp'.req = proc[p]
                         /\ \/ DecidedAmong(byName, form)
                            \/ byName = {} /\ resp'.status = 400
                 ELSE IF byEmail # {}
                    THEN /\ proc'[p] = Idle /\ resp'.req = proc[p]
                         /\ DecidedAmong(byEmail, form)
                 ELSE proc'[p].pc = "auth_name"]_vars

\* C13 witness: a login was refused on the email-matched record although a
\* record with that full_name has the password.
C13_Witness ==
    /\ Responded("login") /\ resp.status = 400
    /\ resp.req.pc = "auth_email" /\ "form" \in DOMAIN resp.req
    /\ Verifying(Matches("full_name", resp.req.form.username),
                 resp.req.form.password) # {}

\* the step appends one record to the user collection and keeps the others
Appends(doc) == users' = Append(users, doc)
\* the step is worker p's insert of a register or of ensure_default_admin
InsertBy(p) ==
    /\ proc'[p] # proc[p]
    /\ \/ proc[p].pc = "reg_insert" /\ Appends(RegisterDoc(proc[p].body))
       \/ proc[p].pc = "boot_insert" /\ Appends(DefaultAdminDoc)
\* the pcs of authenticate_user, of the gate and of /auth/me, /admin/users
ReadOnlyPcs == {"auth_email", "auth_name", "gate_load", "admin_users"}
UsersOnlyGrow ==
    /\ users' # users => \E p \in Procs : InsertBy(p)
    /\ (\E p \in Procs : proc'[p] # proc[p] /\ proc[p].pc \in ReadOnlyPcs)
          => users' = users
    /\ resp'.status \in {400, 401, 403} => users' = users

\* C14 (as claimed): the user collection changes only by the insert of a
\* register or of ensure_default_admin, which appends one record and keeps
\* the others; the steps of authenticate_user, of the gate, of /auth/me and
\* of /admin/users leave it unchanged; and a request rejected with 400, 401
\* or 403 has left it unchanged: when the only request made so far is
\* rejected the collection is still empty.
C14_RejectedRequestsChangeNothing ==
    [][/\ UsersOnlyGrow
       /\ (resp'.status \in {400, 401, 403} /\ nreq' = 1) => users' = <<>>]_vars

\* C14 (amended): as claimed, except that a rejected request is only known
\* not to change the collection in the step that rejects it and, for a
\* register, before it (the 400 comes from the lookup that precedes the
\* insert); a rejected login may have added the default admin in its
\* ensure_default_admin.
C14_UsersOnlyGrow ==
    [][/\ UsersOnlyGrow
       /\ (resp'.status \in {400, 401, 403} /\ resp'.req.kind = "register")
             => resp'.req.pc = "reg_find"
       /\ (resp'.status \in {400, 401, 403} /\ nreq' = 1 /\ users' # <<>>)
             => resp'.req.kind = "login" /\ users' = <<DefaultAdminDoc>>]_vars

\* C14 witness: the collection holds the default admin and a registered
\* record, and a request has just been rejected.
C14_Witness ==
    /\ \E i, j \in DOMAIN users :
          users[i] = DefaultAdminDoc /\ users[j] # DefaultAdminDoc
    /\ resp.status \in {400, 401, 403}

\* the request answered carried a token login issued, before its expiry
IssuedPresented ==
    /\ Answered /\ resp.req.bearer.kind = "jwt"
    /\ resp.req.bearer.tok \in issued
    /\ resp.req.at < resp.req.bearer.tok.payload.exp

\* C15: every token login issued names as sub a record of the store and
\* carries that record's stored role; such a token presented before its
\* expiry is never answered 401.
C15_IssuedTokensResolve ==
    /\ \A t \in issued :
          /\ t.sig = Sign(SECRET_KEY, t.payload)
          /\ t.payload.sub \in DOMAIN users
          /\ t.payload.role = Get(users[t.payload.sub], "role", "<None>")
    /\ (Responded("login") /\ resp.status = 200) => resp.token \in issued
    /\ IssuedPresented => resp.status # 401

\* C15 witness: a student's token from login was accepted by /auth/me.
C15_Witness ==
    /\ IssuedPresented /\ resp.req.route = "me" /\ resp.status = 200
    /\ resp.req.bearer.tok.payload.role = "student"

\* admin records other than the default admin: registered with role admin
SelfAdmins == {i \in Admins : users[i] # DefaultAdminDoc}
\* a register's insert stores the requested role, student when it is
\* omitted or empty
StoresRequestedRole ==
    \A p \in Procs :
       (proc[p].pc = "reg_insert" /\ proc'[p] # proc[p] /\ users' # users)
       => /\ Len(users') = Len(users) + 1
          /\ users'[Len(users')].role =
                IF proc[p].body.role \in {"<None>", ""} THEN "student"
                ELSE proc[p].body.role
\* a new admin record comes from ensure_default_admin or from a register
\* that asked for role admin
AdminsOnlyFrom ==
    (\E i \in DOMAIN users' : i \notin DOMAIN users /\ users'[i].role = "admin")
    => \E p \in Procs :
          /\ proc'[p] # proc[p]
          /\ \/ proc[p].pc = "boot_insert"
             \/ proc[p].pc = "reg_insert" /\ proc[p].body.role = "admin"
\* the login token of a self-registered admin is not refused on an admin
\* route
SelfAdminPasses ==
    (/\ resp'.status # 0 /\ resp'.req.kind = "protected"
     /\ "bearer" \in DOMAIN resp'.req /\ resp'.req.route \in AdminRoutes
     /\ resp'.req.bearer.kind = "jwt" /\ resp'.req.bearer.tok \in issued
     /\ resp'.req.bearer.tok.payload.sub \in SelfAdmins)
    => resp'.status \notin {401, 403}
\* once a self-registered admin exists no default admin is inserted
NoDefaultAdminAfterSelfAdmin ==
    SelfAdmins # {} => users' # Append(users, DefaultAdminDoc)

\* C16 (as claimed): register stores the requested role unchanged (student
\* when omitted or empty); an admin record is created only by
\* ensure_default_admin or by a register that asked for admin; the login
\* token of such a self-registered admin passes the admin gate; and once a
\* self-registered admin exists ensure_default_admin never creates the
\* default admin.
C16_SelfRegisteredAdmin ==
    [][/\ StoresRequestedRole
       /\ AdminsOnlyFrom
       /\ SelfAdminPasses
       /\ NoDefaultAdminAfterSelfAdmin]_vars
====
